---- MODULE Spec2Model ----
(***************************************************************************)
(* A model of skills/image-processor/scripts/image_processor.py.           *)
(*                                                                         *)
(* The module follows the source top-down: the helpers (parse_size,        *)
(* convert_format, save_image, calculate_new_size, resize_image), the      *)
(* budget search of smart_compress, then process_single_image and          *)
(* process_directory.  Python's None is the string "None"; a raised        *)
(* exception is a record field `raised` holding the exception text, or     *)
(* "None" when the call returned.                                          *)
(***************************************************************************)
EXTENDS Integers, Sequences, FiniteSets, TLC

VARIABLES
    fs,        \* the file system: output location -> file written there
    enc,       \* the codec behind Image.save: how encoded size depends on quality
    writes,    \* number of Image.save calls made so far
    faultAt,   \* which Image.save call the operating system refuses (0: none)
    sc,        \* the frame of smart_compress (arguments, locals, position)
    ps,        \* the frame of process_single_image
    pd,        \* the frame of process_directory
    call,      \* a helper function called on its own: its name and arguments
    ret        \* what that call returned or raised

vars == <<fs, enc, writes, faultAt, sc, ps, pd, call, ret>>

\* The variables of the helper calls, and those of the pipeline.
helperVars == <<call, ret>>
pipelineVars == <<ps, pd>>

None == "None"

\* None where the value is otherwise a number (Optional[int]).
Unset == -1

(***************************************************************************)
(* Program constants.                                                      *)
(***************************************************************************)
MIN_QUALITY == 10
MAX_QUALITY == 100
DEFAULT_QUALITY == 85

(***************************************************************************)
(* Paths and the file system.  A path is a sequence of names, a name a     *)
(* pair <<stem, suffix>> ("a.png" is <<"a", ".png">>).  fs maps the paths  *)
(* that exist to Dir (a directory) or to a file record                     *)
(* [kind, img, format, quality, optimize, size]; At gives NoFile elsewhere.*)
(***************************************************************************)
NoFile == [kind |-> "none"]
Dir == [kind |-> "dir"]

At(files, path) == IF path \in DOMAIN files THEN files[path] ELSE NoFile

IsFile(f) == f.kind = "file"
IsDir(f) == f.kind = "dir"

\* Path.parent, Path.name, Path.stem, Path.suffix and the / operator.
Parent(path) == SubSeq(path, 1, Len(path) - 1)
Name(path) == path[Len(path)]
Stem(path) == Name(path)[1]
Suffix(path) == Name(path)[2]
Join(dir, name) == Append(dir, name)

\* Path.mkdir(parents=True, exist_ok=True).
Mkdir(files, path) == (path :> Dir) @@ files

\* Path(str(path).rsplit('.', 1)[0] + new_ext): the text is cut at its last
\* point, wherever that is, and new_ext is put there (stems hold no point).
WithExtension(path, new_ext) ==
    LET dotted == {i \in 1..Len(path) : path[i][2] # ""}
        k == IF dotted = {} THEN Len(path)
             ELSE CHOOSE i \in dotted : \A j \in dotted : j <= i
    IN  Append(SubSeq(path, 1, k - 1), <<path[k][1], new_ext>>)

(***************************************************************************)
(* The codec.  Encoded size as a function of quality is a property of      *)
(* Pillow and of the picture, not of this program, so it is an input: a    *)
(* step function with two thresholds t1 <= t2, falling ("noninc") or       *)
(* rising ("nondec") with quality, or an arbitrary function ("any") whose  *)
(* value at a quality is chosen when that quality is first encoded.        *)
(***************************************************************************)
SizeLevels == 1..3

StepSize(e, quality) ==
    LET band == IF quality < e.t1 THEN 1 ELSE IF quality < e.t2 THEN 2 ELSE 3
    IN  IF e.kind = "noninc" THEN 4 - band ELSE band

\* The sizes Image.save can produce for save_format at this quality.  Only
\* JPEG and WEBP are given the quality (save_image); any other format encodes
\* to one size whatever the quality.
EncodedSizes(e, save_format, quality, seen) ==
    IF save_format \notin {"JPEG", "WEBP"} THEN {2}
    ELSE IF e.kind = "any"
         THEN IF quality \in DOMAIN seen THEN {seen[quality]} ELSE SizeLevels
         ELSE {StepSize(e, quality)}


(***************************************************************************)
(* Strings.  str.lower() and str.upper() on the format names that occur.   *)
(***************************************************************************)
Lower(s) ==
    CASE s = "JPG" -> "jpg"
      [] s = "PNG" -> "png"
      [] OTHER -> s

Upper(s) ==
    CASE s \in {"jpg", "JPG"} -> "JPG"
      [] s = "jpeg" -> "JPEG"
      [] s \in {"png", "PNG"} -> "PNG"
      [] s = "webp" -> "WEBP"
      [] s = "ico" -> "ICO"
      [] s = "bmp" -> "BMP"
      [] s = "gif" -> "GIF"
      [] s = "tiff" -> "TIFF"
      [] OTHER -> s

(***************************************************************************)
(* save_image: the Pillow format name, the RGB conversion for JPEG, the    *)
(* keyword arguments handed to Image.save, and the write itself.  `size`   *)
(* is the length of the encoding the codec produced and `fault` says that  *)
(* the write is refused by the operating system; a write to a directory    *)
(* is refused always.  The result is [raised, fs].                         *)
(***************************************************************************)
SaveFormat(format_name) ==
    IF format_name = None THEN None
    ELSE CASE Lower(format_name) \in {"jpg", "jpeg"} -> "JPEG"
           [] Lower(format_name) = "png" -> "PNG"
           [] Lower(format_name) = "webp" -> "WEBP"
           [] Lower(format_name) = "ico" -> "ICO"
           [] Lower(format_name) = "bmp" -> "BMP"
           [] OTHER -> Upper(format_name)

save_image(files, img, output_path, format_name, quality, optimize, size, fault) ==
    LET save_format == SaveFormat(format_name)
        saved == IF save_format = "JPEG" THEN [img EXCEPT !.mode = "RGB"] ELSE img
        file == [kind     |-> "file",
                 img      |-> saved,
                 format   |-> save_format,
                 quality  |-> IF save_format \in {"JPEG", "WEBP"} THEN quality ELSE Unset,
                 optimize |-> save_format = "PNG" /\ optimize,
                 size     |-> size]
    IN  IF IsDir(At(files, output_path))
        THEN [raised |-> "IsADirectoryError", fs |-> files]
        ELSE IF fault
        THEN [raised |-> "OSError", fs |-> files]
        ELSE [raised |-> None, fs |-> (output_path :> file) @@ files]

\* get_image_size: the length of the file at the location.
get_image_size(files, image_path) == At(files, image_path).size

(***************************************************************************)
(* Numbers.  A float argument is a ratio <<n, d>> with d > 0 (<<>> is      *)
(* None).  int() truncates toward zero; Trunc(a, b) is int(a / b).  On     *)
(* the inputs of this model the binary floating-point products and         *)
(* quotients of the source, truncated, equal the exact ones.               *)
(***************************************************************************)
Trunc(a, b) == IF a >= 0 THEN a \div b ELSE -((-a) \div b)

\* round-half-away-from-zero of a / b, for b > 0.
RoundHalfAway(a, b) ==
    IF a >= 0 THEN (2 * a + b) \div (2 * b) ELSE -((2 * (-a) + b) \div (2 * b))

(***************************************************************************)
(* Text.  A string the program takes apart is a sequence of characters.    *)
(***************************************************************************)
WHITE == <<"w", "h", "i", "t", "e">>
BLACK == <<"b", "l", "a", "c", "k">>

DigitOf ==
    ("0" :> 0) @@ ("1" :> 1) @@ ("2" :> 2) @@ ("3" :> 3) @@ ("4" :> 4) @@
    ("5" :> 5) @@ ("6" :> 6) @@ ("7" :> 7) @@ ("8" :> 8) @@ ("9" :> 9)

HexOf == DigitOf @@ ("a" :> 10) @@ ("b" :> 11) @@ ("c" :> 12) @@ ("d" :> 13) @@
         ("e" :> 14) @@ ("f" :> 15) @@ ("A" :> 10) @@ ("B" :> 11) @@ ("C" :> 12) @@
         ("D" :> 13) @@ ("E" :> 14) @@ ("F" :> 15)

\* s[a:b] for 0 <= a <= b.
Slice(str, a, b) ==
    LET last == IF b < Len(str) THEN b ELSE Len(str)
    IN  IF a + 1 > last THEN <<>> ELSE SubSeq(str, a + 1, last)

\* s[:-2]
DropLast2(str) == IF Len(str) <= 2 THEN <<>> ELSE SubSeq(str, 1, Len(str) - 2)

EndsWith(str, suffix) ==
    /\ Len(suffix) <= Len(str)
    /\ SubSeq(str, Len(str) - Len(suffix) + 1, Len(str)) = suffix

StartsWith(str, prefix) ==
    /\ Len(prefix) <= Len(str)
    /\ SubSeq(str, 1, Len(prefix)) = prefix

RECURSIVE LStrip(_, _)
LStrip(str, ch) ==
    IF str # <<>> /\ Head(str) = ch THEN LStrip(Tail(str), ch) ELSE str

RECURSIVE RStrip(_, _)
RStrip(str, ch) ==
    IF str # <<>> /\ str[Len(str)] = ch
    THEN RStrip(SubSeq(str, 1, Len(str) - 1), ch)
    ELSE str

\* str.strip(): the blanks at both ends removed.
Strip(str) == RStrip(LStrip(str, " "), " ")

UpperChar(c) ==
    CASE c = "k" -> "K"
      [] c = "m" -> "M"
      [] c = "g" -> "G"
      [] c = "b" -> "B"
      [] OTHER -> c

\* str.upper()
UpperStr(str) == [i \in 1..Len(str) |-> UpperChar(str[i])]

AllDigits(str) == \A i \in 1..Len(str) : str[i] \in DOMAIN DigitOf

RECURSIVE DecValue(_)
DecValue(str) ==
    IF str = <<>> THEN 0
    ELSE 10 * DecValue(SubSeq(str, 1, Len(str) - 1)) + DigitOf[str[Len(str)]]

RECURSIVE Pow10(_)
Pow10(n) == IF n = 0 THEN 1 ELSE 10 * Pow10(n - 1)

\* int(text): decimal digits, blanks around them allowed.
ParseInt(text) ==
    LET t == Strip(text)
    IN  IF t # <<>> /\ AllDigits(t)
        THEN [raised |-> None, value |-> DecValue(t)]
        ELSE [raised |-> "ValueError: invalid literal for int()", value |-> 0]

\* float(text), as the ratio <<n, d>>: digits with at most one point among
\* them and a digit somewhere, blanks around them allowed.
ParseFloat(text) ==
    LET t == Strip(text)
        points == {i \in 1..Len(t) : t[i] = "."}
        point == IF points = {} THEN Len(t) + 1 ELSE CHOOSE i \in points : TRUE
        whole == SubSeq(t, 1, point - 1)
        frac == IF point >= Len(t) THEN <<>> ELSE SubSeq(t, point + 1, Len(t))
    IN  IF /\ Cardinality(points) <= 1
           /\ AllDigits(whole) /\ AllDigits(frac)
           /\ Len(whole) + Len(frac) > 0
        THEN [raised |-> None,
              value |-> <<DecValue(whole) * Pow10(Len(frac)) + DecValue(frac),
                          Pow10(Len(frac))>>]
        ELSE [raised |-> "ValueError: could not convert string to float", value |-> <<0, 1>>]

\* int(text, 16) on a slice of at most two characters.
ParseHex(text) ==
    IF text # <<>> /\ \A i \in 1..Len(text) : text[i] \in DOMAIN HexOf
    THEN [raised |-> None,
          value |-> IF Len(text) = 1 THEN HexOf[text[1]]
                    ELSE 16 * HexOf[text[1]] + HexOf[text[2]]]
    ELSE [raised |-> "ValueError: invalid literal for int() with base 16", value |-> 0]

(***************************************************************************)
(* parse_size.  The units are tried in the order of the dict literal.      *)
(* The result is [raised, value].                                          *)
(***************************************************************************)
multipliers ==
    << [unit |-> <<"B">>, mult |-> 1],
       [unit |-> <<"K", "B">>, mult |-> 1024],
       [unit |-> <<"M", "B">>, mult |-> 1024 * 1024],
       [unit |-> <<"G", "B">>, mult |-> 1024 * 1024 * 1024] >>

parse_size(size_str) ==
    LET str == UpperStr(Strip(size_str))
        matching == {i \in 1..Len(multipliers) : EndsWith(str, multipliers[i].unit)}
    IN  IF matching # {}
        THEN LET i == CHOOSE j \in matching : \A k \in matching : j <= k
                 f == ParseFloat(DropLast2(str))
             IN  IF f.raised # None
                 THEN [raised |-> f.raised, value |-> 0]
                 ELSE [raised |-> None,
                       value |-> Trunc(f.value[1] * multipliers[i].mult, f.value[2])]
        ELSE ParseInt(str)

(***************************************************************************)
(* Bitmaps.  A PIL Image is [mode, size, src, bg, masked]: its mode, its   *)
(* (width, height), the picture it was decoded from, and, once it was      *)
(* pasted onto a background, that background's colour (<<>> before) and    *)
(* whether the paste used the alpha channel as its mask.                   *)
(***************************************************************************)
Decoded(mode, size, src) ==
    [mode |-> mode, size |-> size, src |-> src, bg |-> <<>>, masked |-> FALSE]

(***************************************************************************)
(* convert_format.  Images are objects: `heap` is the sequence of the      *)
(* Image objects that exist and an image is its index.  Image.new and      *)
(* Image.convert make a new object; Image.paste changes the object it is   *)
(* called on.  The result is [raised, heap, img].                          *)
(***************************************************************************)
\* Lines 100-111: the background colour, [raised, rgb].
BackgroundColor(bg_color) ==
    IF bg_color = WHITE
    THEN [raised |-> None, rgb |-> <<255, 255, 255>>]
    ELSE IF bg_color = BLACK
    THEN [raised |-> None, rgb |-> <<0, 0, 0>>]
    ELSE IF StartsWith(bg_color, <<"#">>)
    THEN LET hex == LStrip(bg_color, "#")
             r == ParseHex(Slice(hex, 0, 2))
             g == ParseHex(Slice(hex, 2, 4))
             b == ParseHex(Slice(hex, 4, 6))
         IN  IF r.raised # None THEN [raised |-> r.raised, rgb |-> <<>>]
             ELSE IF g.raised # None THEN [raised |-> g.raised, rgb |-> <<>>]
             ELSE IF b.raised # None THEN [raised |-> b.raised, rgb |-> <<>>]
             ELSE [raised |-> None, rgb |-> <<r.value, g.value, b.value>>]
    ELSE [raised |-> None, rgb |-> <<255, 255, 255>>]

\* Image.new("RGB", size, color): a canvas of one colour.
ImageNew(size, color) ==
    [mode |-> "RGB", size |-> size, src |-> "", bg |-> color, masked |-> FALSE]

\* background.paste(img, mask): the picture over the canvas.
Pasted(background, img, masked) ==
    [background EXCEPT !.src = img.src, !.masked = masked]

\* Lines 99-116 for the formats in `opaque`.
Flatten(heap, img, target_format, bg_color, opaque) ==
    IF Lower(target_format) \in opaque /\ heap[img].mode \in {"RGBA", "LA", "P"}
    THEN LET color == BackgroundColor(bg_color)
         IN  IF color.raised # None
             THEN [raised |-> color.raised, heap |-> heap, img |-> img]
             ELSE LET background == Len(heap) + 1
                      h1 == Append(heap, ImageNew(heap[img].size, color.rgb))
                      h2 == IF heap[img].mode = "P"
                            THEN Append(h1, [heap[img] EXCEPT !.mode = "RGBA"])
                            ELSE h1
                      source == IF heap[img].mode = "P" THEN Len(h2) ELSE img
                      h3 == [h2 EXCEPT ![background] =
                                Pasted(h2[background], h2[source],
                                       h2[source].mode = "RGBA")]
                  IN  [raised |-> None, heap |-> h3, img |-> background]
    ELSE [raised |-> None, heap |-> heap, img |-> img]

\* convert_format flattening for BMP as well as for JPEG.
convert_format_AlsoBmp(heap, img, target_format, bg_color) ==
    Flatten(heap, img, target_format, bg_color, {"jpg", "jpeg", "bmp"})

convert_format(heap, img, target_format, bg_color) ==
    Flatten(heap, img, target_format, bg_color, {"jpg", "jpeg"})

(***************************************************************************)
(* calculate_new_size.  The result is [raised, size].                      *)
(***************************************************************************)
PRESETS ==
    [p \in {"instagram-square", "youtube-thumb", "twitter-banner", "hd", "4k"} |->
        CASE p = "instagram-square" -> <<1080, 1080>>
          [] p = "youtube-thumb" -> <<1280, 720>>
          [] p = "twitter-banner" -> <<1500, 500>>
          [] p = "hd" -> <<1920, 1080>>
          [] p = "4k" -> <<3840, 2160>>]

\* `if preset:` holds for a string that is neither None nor empty.
Truthy(str) == str \notin {None, ""}

\* calculate_new_size with scale taking effect only when width and height are unset.
calculate_new_size_ScaleLast(img, target_width, target_height, scale, preset, maintain_aspect) ==
    LET original_width == img.size[1]
        original_height == img.size[2]
    IN  IF Truthy(preset)
        THEN IF preset \notin DOMAIN PRESETS
             THEN [raised |-> "ValueError: unknown preset", size |-> <<>>]
             ELSE [raised |-> None, size |-> PRESETS[preset]]
        ELSE IF target_width # Unset /\ target_height = Unset
        THEN [raised |-> None,
              size |-> IF maintain_aspect
                       THEN <<target_width,
                              Trunc(original_height * target_width, original_width)>>
                       ELSE <<target_width, original_height>>]
        ELSE IF target_height # Unset /\ target_width = Unset
        THEN [raised |-> None,
              size |-> IF maintain_aspect
                       THEN <<Trunc(original_width * target_height, original_height),
                              target_height>>
                       ELSE <<original_width, target_height>>]
        ELSE IF target_width # Unset /\ target_height # Unset
        THEN [raised |-> None, size |-> <<target_width, target_height>>]
        ELSE IF scale # <<>>
        THEN [raised |-> None,
              size |-> <<Trunc(original_width * scale[1], scale[2]),
                         Trunc(original_height * scale[1], scale[2])>>]
        ELSE [raised |-> None, size |-> <<original_width, original_height>>]

calculate_new_size(img, target_width, target_height, scale, preset, maintain_aspect) ==
    LET original_width == img.size[1]
        original_height == img.size[2]
    IN  IF Truthy(preset)
        THEN IF preset \notin DOMAIN PRESETS
             THEN [raised |-> "ValueError: unknown preset", size |-> <<>>]
             ELSE [raised |-> None, size |-> PRESETS[preset]]
        ELSE IF scale # <<>>
        THEN [raised |-> None,
              size |-> <<Trunc(original_width * scale[1], scale[2]),
                         Trunc(original_height * scale[1], scale[2])>>]
        ELSE IF target_width # Unset /\ target_height = Unset
        THEN [raised |-> None,
              size |-> IF maintain_aspect
                       THEN <<target_width,
                              Trunc(original_height * target_width, original_width)>>
                       ELSE <<target_width, original_height>>]
        ELSE IF target_height # Unset /\ target_width = Unset
        THEN [raised |-> None,
              size |-> IF maintain_aspect
                       THEN <<Trunc(original_width * target_height, original_height),
                              target_height>>
                       ELSE <<original_width, target_height>>]
        ELSE IF target_width # Unset /\ target_height # Unset
        THEN [raised |-> None, size |-> <<target_width, target_height>>]
        ELSE [raised |-> None, size |-> <<original_width, original_height>>]

(***************************************************************************)
(* smart_compress.  The frame sc holds the arguments, the locals of the    *)
(* budget search and the position: "entry" before the first statement,     *)
(* "loop" at the while test, "done" after a return, "raised" after an      *)
(* exception left the function, "idle" when it is not running.             *)
(***************************************************************************)
\* `format_name.lower() in ("png")` is a substring test on the string "png".
PngSubstrings == {"", "p", "n", "g", "pn", "ng", "png"}

\* Lines 246-248: the state of the search before the first probe.
SearchStart(s) ==
    [s EXCEPT !.pc = "loop",
              !.low = s.min_quality,
              !.high = s.max_quality,
              !.best_quality = DEFAULT_QUALITY,
              !.best_size = 0]

\* Line 251.
MidQuality(s) == (s.low + s.high) \div 2

\* SearchUpdate with the upper bound left on the probed quality.
SearchUpdateKeepsMid(s, mid_quality, current_size) ==
    IF current_size <= s.target_size
    THEN [s EXCEPT !.best_quality = mid_quality,
                   !.best_size = current_size,
                   !.high = mid_quality]
    ELSE [s EXCEPT !.low = mid_quality + 1]

\* Lines 255-260: what one probe's size does to the bounds and to the best.
SearchUpdate(s, mid_quality, current_size) ==
    IF current_size <= s.target_size
    THEN [s EXCEPT !.best_quality = mid_quality,
                   !.best_size = current_size,
                   !.high = mid_quality - 1]
    ELSE [s EXCEPT !.low = mid_quality + 1]

IdleFrame ==
    [pc |-> "idle", img |-> None, output_path |-> None, format_name |-> None,
     target_size |-> Unset, min_quality |-> MIN_QUALITY, max_quality |-> MAX_QUALITY,
     low |-> 0, high |-> 0, best_quality |-> 0, best_size |-> 0,
     ret |-> Unset, raised |-> None,
     probes |-> 0,       \* history: save_image calls made by the while loop
     sampled |-> <<>>]   \* history: the sizes the codec produced, by quality

\* A call smart_compress(img, output_path, format_name, target_size, min, max).
SmartCompressCall(img, output_path, format_name, target_size, min_quality, max_quality) ==
    [IdleFrame EXCEPT !.pc = "entry", !.img = img, !.output_path = output_path,
                      !.format_name = format_name, !.target_size = target_size,
                      !.min_quality = min_quality, !.max_quality = max_quality]

\* Whether the next Image.save call is the one the operating system refuses.
WriteFault == faultAt = writes + 1

\* The codec's answer recorded in the frame's history.
Sampled(s, save_format, quality, size) ==
    IF save_format \in {"JPEG", "WEBP"}
    THEN [s EXCEPT !.sampled = (quality :> size) @@ s.sampled]
    ELSE s

\* Lines 232-243: the PNG branch and the branch without a budget, one encode each.
SmartCompressSingle(quality, optimize) ==
    \E size \in EncodedSizes(enc, SaveFormat(sc.format_name), quality, sc.sampled) :
        LET r == save_image(fs, sc.img, sc.output_path, sc.format_name,
                            quality, optimize, size, WriteFault)
        IN  /\ fs' = r.fs
            /\ sc' = IF r.raised = None
                     THEN [Sampled(sc, SaveFormat(sc.format_name), quality, size)
                             EXCEPT !.pc = "done",
                                    !.ret = get_image_size(r.fs, sc.output_path)]
                     ELSE [sc EXCEPT !.pc = "raised", !.raised = r.raised]

SmartCompressEntry ==
    /\ sc.pc = "entry"
    /\ IF Lower(sc.format_name) \in PngSubstrings
       THEN SmartCompressSingle(95, TRUE) /\ writes' = writes + 1
       ELSE IF sc.target_size = Unset
       THEN SmartCompressSingle(DEFAULT_QUALITY, FALSE) /\ writes' = writes + 1
       ELSE /\ sc' = SearchStart(sc)
            /\ UNCHANGED <<fs, writes>>
    /\ UNCHANGED <<enc, faultAt, pipelineVars, helperVars>>

\* Lines 250-260: one iteration of the while loop.
Probe ==
    /\ sc.pc = "loop"
    /\ sc.low <= sc.high
    /\ LET mid_quality == MidQuality(sc)
           save_format == SaveFormat(sc.format_name)
       IN  \E size \in EncodedSizes(enc, save_format, mid_quality, sc.sampled) :
             LET r == save_image(fs, sc.img, sc.output_path, sc.format_name,
                                 mid_quality, FALSE, size, WriteFault)
                 s1 == [Sampled(sc, save_format, mid_quality, size)
                          EXCEPT !.probes = sc.probes + 1]
             IN  /\ fs' = r.fs
                 /\ sc' = IF r.raised = None
                          THEN SearchUpdate(s1, mid_quality,
                                            get_image_size(r.fs, sc.output_path))
                          ELSE [s1 EXCEPT !.pc = "raised", !.raised = r.raised]
    /\ writes' = writes + 1
    /\ UNCHANGED <<enc, faultAt, pipelineVars, helperVars>>

\* Line 262: the loop test fails and best_size is returned.
SmartCompressReturn ==
    /\ sc.pc = "loop"
    /\ sc.low > sc.high
    /\ sc' = [sc EXCEPT !.pc = "done", !.ret = sc.best_size]
    /\ UNCHANGED <<fs, enc, writes, faultAt, pipelineVars, helperVars>>

(***************************************************************************)
(* The budget search on its own: smart_compress called with a picture, a   *)
(* budget and a codec.  Codecs with a monotone size are searched over the  *)
(* default range [10, 100]; arbitrary codecs also over other ranges.       *)
(***************************************************************************)
Thresholds == MIN_QUALITY .. (MAX_QUALITY + 1)

MonotoneCodecs ==
    {[kind |-> k, t1 |-> a, t2 |-> b] :
        k \in {"noninc", "nondec"}, a \in Thresholds, b \in Thresholds}

StepCodecs == {e \in MonotoneCodecs : e.t1 <= e.t2}

AnyCodec == [kind |-> "any", t1 |-> 0, t2 |-> 0]

Budgets == 0..3

\* Ranges [min_quality, max_quality], none of them empty.
QualityRanges == {<<10, 100>>, <<1, 100>>, <<27, 27>>}

SearchPicture == [mode |-> "RGB", size |-> <<4, 3>>, src |-> "a"]

SearchOutput == << <<"processed", "">>, <<"a", ".jpg">> >>

\* No helper is called on its own, and no pipeline runs.
NoCall == [fn |-> "none"]
NotReturned == [done |-> FALSE]
NoPipeline == [pc |-> "idle"]

SearchInit ==
    /\ call = NoCall /\ ret = NotReturned
    /\ ps = NoPipeline /\ pd = NoPipeline
    /\ fs = (<< <<"processed", "">> >> :> Dir)
    /\ writes = 0
    /\ \/ /\ enc \in StepCodecs
          /\ faultAt = 0
          /\ \E b \in Budgets :
                sc = SmartCompressCall(SearchPicture, SearchOutput, "jpeg", b,
                                       MIN_QUALITY, MAX_QUALITY)
       \/ /\ enc = AnyCodec
          /\ faultAt \in {0, 3}
          /\ \E b \in Budgets \cup {Unset}, r \in QualityRanges, f \in {"jpg", "webp", "png", "bmp"} :
                sc = SmartCompressCall(SearchPicture, SearchOutput, f, b, r[1], r[2])

SearchNext ==
    \/ SmartCompressEntry
    \/ Probe
    \/ SmartCompressReturn

SearchSpec == SearchInit /\ [][SearchNext]_vars

\* The budget search with its scheduling: a call that can take a step does.
SearchFair == SearchSpec /\ WF_vars(SearchNext)

(***************************************************************************)
(* Properties of the budget search.                                        *)
(***************************************************************************)
\* The search ran to its return: a budget was given and the format is lossy.
SearchReturned ==
    /\ sc.pc = "done"
    /\ sc.target_size # Unset
    /\ Lower(sc.format_name) \notin PngSubstrings

\* The qualities of the frame's range whose encoding fits the budget.
Fitting(s) ==
    {q \in s.min_quality .. s.max_quality : StepSize(enc, q) <= s.target_size}

MaxOf(S) == CHOOSE q \in S : \A r \in S : r <= q

\* C1: for a codec whose size is non-increasing in quality over [10,100] and a
\* budget that some quality fits, the search ends with best_quality the
\* greatest fitting quality and returns that quality's size, within budget.
C1_BudgetSearchConvergence ==
    (/\ SearchReturned
     /\ enc.kind = "noninc"
     /\ sc.min_quality = MIN_QUALITY /\ sc.max_quality = MAX_QUALITY
     /\ Fitting(sc) # {})
    => /\ sc.best_quality = MaxOf(Fitting(sc))
       /\ sc.ret = StepSize(enc, MaxOf(Fitting(sc)))
       /\ sc.ret <= sc.target_size

\* C2: when no quality of the range fits the budget, the size returned and the
\* file left at the output location are the encoding at quality 85, with its
\* true size.
C2_BudgetSearchFallback ==
    (/\ SearchReturned
     /\ enc.kind # "any"
     /\ Fitting(sc) = {})
    => /\ At(fs, sc.output_path).quality = DEFAULT_QUALITY
       /\ At(fs, sc.output_path).size = StepSize(enc, DEFAULT_QUALITY)
       /\ sc.ret = StepSize(enc, DEFAULT_QUALITY)

\* The number of qualities in the frame's range.
RangeSize(s) == s.max_quality - s.min_quality + 1

C9_Bounds ==
    sc.pc \in {"loop", "done", "raised"} /\ sc.target_size # Unset
                                          /\ Lower(sc.format_name) \notin PngSubstrings
    => /\ sc.low \in sc.min_quality .. (sc.max_quality + 1)
       /\ sc.high \in (sc.min_quality - 1) .. sc.max_quality
       /\ RangeSize(sc) <= 100 => sc.probes <= 7

C9_Shrinks ==
    sc.pc = "loop" /\ sc'.pc = "loop" /\ sc' # sc
    => sc'.high - sc'.low < sc.high - sc.low

\* C9: whatever sizes the codec produces and whatever the budget, the search
\* loop ends; high - low strictly decreases on every iteration, low and high
\* stay within [min_quality - 1, max_quality + 1], and a range of at most 100
\* qualities takes at most 7 encodes.
C9_SearchTerminates ==
    /\ []C9_Bounds
    /\ [][C9_Shrinks]_vars
    /\ <>(sc.pc \in {"done", "raised"})

\* C11: whatever sizes the codec produces and whatever the budget, when the
\* search returns, the file at the output location is the encoding made at the
\* best-known quality: its size is the size returned, and no later probe has
\* overwritten the best candidate.
C11_OutputMatchesBest ==
    SearchReturned =>
        /\ IsFile(At(fs, sc.output_path))
        /\ At(fs, sc.output_path).quality = sc.best_quality
        /\ At(fs, sc.output_path).size = sc.ret

\* A search over [1,100] that took all 7 probes and returned.
C9_Witness ==
    /\ SearchReturned
    /\ enc.kind = "any"
    /\ RangeSize(sc) = 100
    /\ sc.probes = 7

(***************************************************************************)
(* calculate_new_size called on its own, on every combination of set and   *)
(* unset arguments.                                                        *)
(***************************************************************************)
MaxDim == 4

Dims == 1..MaxDim

Scales == {<<>>, <<1, 2>>, <<3, 2>>, <<2, 1>>, <<1, 4>>}

PresetArgs == {None, "", "hd", "twitter-banner", "poster"}

\* No pipeline and no search is running.
HelperOnly ==
    /\ fs = <<>> /\ writes = 0 /\ faultAt = 0
    /\ enc = AnyCodec
    /\ sc = IdleFrame
    /\ ps = NoPipeline /\ pd = NoPipeline

GeometryInit ==
    /\ HelperOnly
    /\ ret = NotReturned
    /\ \E w \in Dims, h \in Dims, tw \in Dims \cup {Unset}, th \in Dims \cup {Unset},
          scale \in Scales, preset \in PresetArgs, maintain_aspect \in BOOLEAN :
            call = [fn |-> "calculate_new_size",
                    img |-> Decoded("RGB", <<w, h>>, "a"),
                    target_width |-> tw, target_height |-> th,
                    scale |-> scale, preset |-> preset,
                    maintain_aspect |-> maintain_aspect]

CallCalculateNewSize ==
    /\ call.fn = "calculate_new_size"
    /\ ~ret.done
    /\ LET r == calculate_new_size(call.img, call.target_width, call.target_height,
                                   call.scale, call.preset, call.maintain_aspect)
       IN  ret' = [done |-> TRUE, raised |-> r.raised, value |-> r.size]
    /\ UNCHANGED <<fs, enc, writes, faultAt, sc, pipelineVars, call>>

GeometrySpec == GeometryInit /\ [][CallCalculateNewSize]_vars

\* C5: calculate_new_size applies the first matching rule in the order preset,
\* scale, width only, height only, width and height, none: a known preset
\* gives its table entry whatever the other arguments, a set scale overrides
\* width and height, width only (height only) without maintain_aspect keeps
\* the current height (width), width and height are returned verbatim whatever
\* maintain_aspect, and with nothing set the current size is returned.
C5_ResolverPrecedence ==
    (call.fn = "calculate_new_size" /\ ret.done) =>
    LET w == call.img.size[1]
        h == call.img.size[2]
        tw == call.target_width
        th == call.target_height
    IN  /\ Truthy(call.preset) /\ call.preset \in DOMAIN PRESETS
             => ret.raised = None /\ ret.value = PRESETS[call.preset]
        /\ Truthy(call.preset) /\ call.preset \notin DOMAIN PRESETS
             => ret.raised # None
        /\ ~Truthy(call.preset) => ret.raised = None
        /\ ~Truthy(call.preset) /\ call.scale # <<>>
             => ret.value = <<Trunc(w * call.scale[1], call.scale[2]),
                              Trunc(h * call.scale[1], call.scale[2])>>
        /\ ~Truthy(call.preset) /\ call.scale = <<>>
             => /\ tw # Unset /\ th = Unset /\ ~call.maintain_aspect => ret.value = <<tw, h>>
                /\ tw # Unset /\ th = Unset /\ call.maintain_aspect => ret.value[1] = tw
                /\ tw = Unset /\ th # Unset /\ ~call.maintain_aspect => ret.value = <<w, th>>
                /\ tw = Unset /\ th # Unset /\ call.maintain_aspect => ret.value[2] = th
                /\ tw # Unset /\ th # Unset => ret.value = <<tw, th>>
                /\ tw = Unset /\ th = Unset => ret.value = <<w, h>>

\* Everything set at once, preset apart: the scale rule decided.
C5_Witness ==
    /\ call.fn = "calculate_new_size" /\ ret.done
    /\ ~Truthy(call.preset)
    /\ call.scale = <<3, 2>>
    /\ call.target_width = 1 /\ call.target_height = 1
    /\ call.img.size = <<4, 2>>
    /\ ret.value = <<6, 3>>

\* C6: width only with maintain_aspect: the result is
\* (width, round(current_h * width / current_w)), rounding half away from zero.
C6_AspectMath ==
    (/\ call.fn = "calculate_new_size" /\ ret.done
     /\ ~Truthy(call.preset) /\ call.scale = <<>>
     /\ call.target_width # Unset /\ call.target_height = Unset
     /\ call.maintain_aspect)
    => /\ ret.raised = None
       /\ ret.value[1] = call.target_width
       /\ ret.value[2] = RoundHalfAway(call.img.size[2] * call.target_width,
                                       call.img.size[1])

(***************************************************************************)
(* parse_size called on its own, on numbers followed by a unit and on      *)
(* other strings.                                                          *)
(***************************************************************************)
MaxDigits == 3

DigitChars == {"0", "2", "5"}

DigitStrings == UNION {[1..n -> DigitChars] : n \in 1..MaxDigits}

SizeStrings ==
    {n \o multipliers[i].unit : n \in DigitStrings, i \in 1..Len(multipliers)}
    \cup DigitStrings
    \cup {<<"2", "k", "b">>, <<" ", "5", "M", "B", " ">>, <<"2", ".", "5", "M", "B">>,
          <<"K", "B">>, <<"B">>, <<"2", ".", "5">>, <<>>}

ParseInit ==
    /\ HelperOnly
    /\ ret = NotReturned
    /\ \E str \in SizeStrings : call = [fn |-> "parse_size", size_str |-> str]

CallParseSize ==
    /\ call.fn = "parse_size"
    /\ ~ret.done
    /\ LET r == parse_size(call.size_str)
       IN  ret' = [done |-> TRUE, raised |-> r.raised, value |-> r.value]
    /\ UNCHANGED <<fs, enc, writes, faultAt, sc, pipelineVars, call>>

ParseSpec == ParseInit /\ [][CallParseSize]_vars

\* C8: for every non-negative integer n and unit u of B, KB, MB, GB, parse_size
\* of n followed by u is n times u's binary multiplier (1, 1024, 1024^2, 1024^3).
C8_ParseSize ==
    (call.fn = "parse_size" /\ ret.done) =>
    \A n \in DigitStrings, i \in 1..Len(multipliers) :
        call.size_str = n \o multipliers[i].unit
        => ret.raised = None /\ ret.value = DecValue(n) * multipliers[i].mult

(***************************************************************************)
(* convert_format called on its own, on every target format, pixel mode    *)
(* and kind of background colour.                                          *)
(***************************************************************************)
Modes == {"P", "LA", "RGBA", "RGB", "L"}

TargetFormats == {"jpg", "jpeg", "JPG", "png", "webp", "ico", "bmp"}

BgColors ==
    {WHITE, BLACK,
     <<"#", "f", "f", "8", "0", "0", "0">>,
     <<"#", "F", "F", "8", "0", "0", "0">>,
     <<"#", "#", "0", "0", "0", "0", "f", "f">>,
     <<"#", "f", "f", "0", "0", "8">>,
     <<"#", "f", "f", "f">>,
     <<"#", "g", "g", "0", "0", "0", "0">>,
     <<"#">>,
     <<"f", "f", "8", "0", "0", "0">>,
     <<"r", "e", "d">>}

ConvertInit ==
    /\ HelperOnly
    /\ ret = NotReturned
    /\ \E mode \in Modes, w \in 1..2, target \in TargetFormats, bg \in BgColors :
          call = [fn |-> "convert_format",
                  heap |-> <<Decoded(mode, <<w, 1>>, "a")>>, img |-> 1,
                  target_format |-> target, bg_color |-> bg]

CallConvertFormat ==
    /\ call.fn = "convert_format"
    /\ ~ret.done
    /\ LET r == convert_format(call.heap, call.img, call.target_format, call.bg_color)
       IN  ret' = [done |-> TRUE, raised |-> r.raised, heap |-> r.heap, img |-> r.img]
    /\ UNCHANGED <<fs, enc, writes, faultAt, sc, pipelineVars, call>>

ConvertSpec == ConvertInit /\ [][CallConvertFormat]_vars

\* The call returned a new opaque bitmap: the picture over a background.
ReturnedFlattened ==
    /\ ret.raised = None
    /\ ret.img # call.img
    /\ ret.heap[ret.img].mode = "RGB"
    /\ ret.heap[ret.img].bg # <<>>
    /\ ret.heap[ret.img].src = call.heap[call.img].src
    /\ ret.heap[ret.img].size = call.heap[call.img].size

\* The call returned the very bitmap it was given.
ReturnedUnchanged ==
    /\ ret.raised = None
    /\ ret.img = call.img
    /\ ret.heap = call.heap

\* The bitmap given is, after the call, what it was before.
InputNotMutated == ret.heap[call.img] = call.heap[call.img]

Transparent(mode) == mode \in {"P", "LA", "RGBA"}

\* C7 as stated: a flattened RGB bitmap is returned exactly when the target is
\* JPEG or BMP and the source mode carries transparency; otherwise the input
\* is returned unchanged; the input is never mutated.
C7_AsStated ==
    (call.fn = "convert_format" /\ ret.done /\ ret.raised = None) =>
    LET acts == /\ SaveFormat(call.target_format) \in {"JPEG", "BMP"}
                /\ Transparent(call.heap[call.img].mode)
    IN  /\ ReturnedFlattened <=> acts
        /\ ~acts => ReturnedUnchanged
        /\ InputNotMutated

\* C7, amended: a flattened RGB bitmap is returned exactly when the target is
\* JPEG (jpg or jpeg, in any case) and the source mode carries transparency,
\* unless the background colour starts with '#' and is not made of hex digits,
\* which raises; for every other pair, BMP included, the input is returned
\* unchanged; the input is never mutated.
C7_ConverterApplicability ==
    (call.fn = "convert_format" /\ ret.done) =>
    LET acts == /\ SaveFormat(call.target_format) = "JPEG"
                /\ Transparent(call.heap[call.img].mode)
    IN  /\ ret.raised = None => (ReturnedFlattened <=> acts)
        /\ ~acts => ReturnedUnchanged
        /\ ret.raised # None => acts /\ StartsWith(call.bg_color, <<"#">>)
        /\ InputNotMutated

\* An RGBA bitmap was converted for BMP and came back as it was.
C7_Witness ==
    /\ call.fn = "convert_format" /\ ret.done
    /\ call.target_format = "bmp"
    /\ call.heap[call.img].mode = "RGBA"
    /\ ReturnedUnchanged

(***************************************************************************)
(* process_single_image.  The frame ps holds the arguments (the input      *)
(* picture, input_path, output_path, the options o), the locals img and    *)
(* result, and the position pc:                                            *)
(*   "load"      before load_image                          (line 335)     *)
(*   "paths"     before the output path is determined       (line 339)     *)
(*   "convert"   before the conversion branch               (line 360)     *)
(*   "resize"    before the resize branch                   (line 378)     *)
(*   "save"      before the branches that save a picture    (line 385)     *)
(*               that was not converted                                    *)
(*   "finish"    before success is set                      (line 410)     *)
(*   "compress_convert", "compress_save"                                   *)
(*               inside smart_compress, called from the conversion or      *)
(*               from the save branch                                      *)
(*   "returned"  after the return; "raised" if an exception left it.       *)
(* An input picture is [name, mode, size, readable, bytes].  The history   *)
(* fields are fs0, the file system when the call began, and log, the       *)
(* stages that ran, in order.                                              *)
(***************************************************************************)
ICO_SIZE == 128

ext_map(convert) ==
    CASE Lower(convert) \in {"jpg", "jpeg"} -> ".jpg"
      [] Lower(convert) = "png" -> ".png"
      [] Lower(convert) = "webp" -> ".webp"
      [] Lower(convert) = "ico" -> ".ico"
      [] Lower(convert) = "bmp" -> ".bmp"

\* input_path.suffix[1:]
SuffixFormat(suffix) ==
    CASE suffix = ".jpg" -> "jpg"
      [] suffix = ".jpeg" -> "jpeg"
      [] suffix = ".png" -> "png"
      [] suffix = ".gif" -> "gif"
      [] suffix = ".bmp" -> "bmp"
      [] suffix = ".tiff" -> "tiff"
      [] suffix = ".webp" -> "webp"
      [] suffix = ".JPG" -> "JPG"
      [] suffix = ".PNG" -> "PNG"

\* Line 378: some resize parameter is present.
ResizeRequested(o) ==
    o.width # Unset \/ o.height # Unset \/ o.scale # <<>> \/ Truthy(o.preset)

\* get_output_path(input_path, None, new_ext) for an input file: [fs, path].
get_output_path(files, input_path, new_ext) ==
    LET processed_dir == Join(Parent(input_path), <<"processed", "">>)
    IN  [fs |-> Mkdir(files, processed_dir),
         path |-> IF new_ext # None
                  THEN Join(processed_dir, <<Stem(input_path), new_ext>>)
                  ELSE Join(processed_dir, Name(input_path))]

\* resize_image: Image.resize refuses a size with a side that is not positive.
resize_image(img, new_size) ==
    IF new_size[1] <= 0 \/ new_size[2] <= 0
    THEN [raised |-> "ValueError: height and width must be > 0", img |-> img]
    ELSE [raised |-> None, img |-> [img EXCEPT !.size = new_size]]

\* The except clause re-raising what it caught.
ExceptReraises(frame, e) ==
    [frame EXCEPT !.pc = "raised", !.result.error = e]

\* Lines 419-423: the exception's text goes into the result, which is returned.
Except(frame, e) ==
    [frame EXCEPT !.pc = "returned", !.result.error = e]

\* The frame with one more stage in its history.
Logged(frame, stage) == [frame EXCEPT !.log = Append(frame.log, stage)]

\* A call process_single_image(input_path, output_path, options).
ProcessSingleImageCall(files, picture, input_path, output_path, o) ==
    [pc |-> "load", input |-> picture, input_path |-> input_path,
     output_path |-> output_path, o |-> o,
     img |-> Decoded("", <<0, 0>>, ""),
     result |-> [input |-> input_path, output |-> <<>>, original_size |-> 0,
                 compressed_size |-> 0, success |-> FALSE, error |-> None],
     fs0 |-> files, log |-> <<>>]

\* Lines 335-336.
PsLoad ==
    /\ ps.pc = "load"
    /\ ps' = IF ~ps.input.readable
             THEN Except(Logged(ps, "decode"), "UnidentifiedImageError: cannot identify image file")
             ELSE [Logged(ps, "decode") EXCEPT
                      !.pc = "paths",
                      !.img = Decoded(ps.input.mode, ps.input.size, ps.input.name),
                      !.result.original_size = ps.input.bytes]
    /\ UNCHANGED <<fs, enc, writes, faultAt, sc, pd, helperVars>>

\* Lines 339-357.
PsPaths ==
    /\ ps.pc = "paths"
    /\ LET convert == ps.o.convert
           new_ext == IF convert # None THEN ext_map(convert) ELSE None
           made == IF ps.output_path = <<>>
                   THEN get_output_path(fs, ps.input_path, new_ext)
                   ELSE [fs |-> fs,
                         path |-> IF convert # None
                                  THEN WithExtension(ps.output_path, new_ext)
                                  ELSE ps.output_path]
       IN  /\ fs' = made.fs
           /\ ps' = [ps EXCEPT
                        !.pc = IF convert # None THEN "convert" ELSE "resize",
                        !.output_path = made.path,
                        !.result.output =
                            IF ~IsDir(At(made.fs, made.path))
                            THEN made.path
                            ELSE Join(made.path, Name(ps.input_path))]
    /\ UNCHANGED <<enc, writes, faultAt, sc, pd, helperVars>>

\* compress_image(img, output_path, format_name, quality, optimize, ts) called
\* from frame f: a fixed quality is one save_image; a budget, or neither, is a
\* call of smart_compress, awaited at position `waiting`.  Then, as at lines
\* 375, 396 and 408, compressed_size is read from the file.
CompressImage(f, format_name, ts, next, waiting) ==
    IF ts = Unset /\ f.o.quality # Unset
    THEN \E size \in EncodedSizes(enc, SaveFormat(format_name), f.o.quality, <<>>) :
           LET r == save_image(fs, f.img, f.output_path, format_name,
                               f.o.quality, f.o.optimize, size, WriteFault)
           IN  /\ fs' = r.fs
               /\ writes' = writes + 1
               /\ sc' = sc
               /\ ps' = IF r.raised # None
                        THEN Except(f, r.raised)
                        ELSE [f EXCEPT
                                !.pc = next,
                                !.result.compressed_size = get_image_size(r.fs, f.output_path)]
    ELSE /\ sc' = SmartCompressCall(f.img, f.output_path, format_name, ts,
                                    MIN_QUALITY, MAX_QUALITY)
         /\ ps' = [f EXCEPT !.pc = waiting]
         /\ UNCHANGED <<fs, writes>>

\* save_ico (lines 292-300) and line 363.
SaveIco(f) ==
    LET resized == resize_image([f.img EXCEPT !.mode = "RGBA"],
                                <<f.o.ico_size, f.o.ico_size>>)
        r == IF resized.raised # None
             THEN [raised |-> resized.raised, fs |-> fs]
             ELSE save_image(fs, resized.img, f.output_path, "ico", Unset, FALSE,
                             2, WriteFault)
    IN  /\ fs' = r.fs
        /\ writes' = IF resized.raised = None THEN writes + 1 ELSE writes
        /\ sc' = sc
        /\ ps' = IF r.raised # None
                 THEN Except(f, r.raised)
                 ELSE [f EXCEPT !.pc = "resize",
                                !.result.compressed_size = get_image_size(r.fs, f.output_path)]

\* `parse_size(target_size) if target_size else None`
TargetBytes(target_size) ==
    IF target_size = <<>> THEN [raised |-> None, value |-> Unset]
    ELSE parse_size(target_size)

\* Lines 360-375: the conversion branch, which encodes.
PsConvert ==
    /\ ps.pc = "convert"
    /\ IF Lower(ps.o.convert) = "ico"
       THEN SaveIco(Logged(ps, "encode"))
       ELSE LET c == convert_format(<<ps.img>>, 1, ps.o.convert, ps.o.bg_color)
                ts == TargetBytes(ps.o.target_size)
                f == [Logged(ps, "convert") EXCEPT !.img = c.heap[c.img]]
            IN  IF c.raised # None
                THEN ps' = Except(Logged(ps, "convert"), c.raised)
                     /\ UNCHANGED <<fs, writes, sc>>
                ELSE IF ts.raised # None
                THEN ps' = Except(f, ts.raised) /\ UNCHANGED <<fs, writes, sc>>
                ELSE CompressImage(Logged(f, "encode"), ps.o.convert, ts.value,
                                   "resize", "compress_convert")
    /\ UNCHANGED <<enc, faultAt, pd, helperVars>>

\* Lines 378-382: the resize branch.
PsResize ==
    /\ ps.pc = "resize"
    /\ IF ResizeRequested(ps.o)
       THEN LET n == calculate_new_size(ps.img, ps.o.width, ps.o.height, ps.o.scale,
                                        ps.o.preset, ~ps.o.no_aspect)
                r == resize_image(ps.img, n.size)
            IN  ps' = IF n.raised # None
                      THEN Except(Logged(ps, "geometry"), n.raised)
                      ELSE IF r.raised # None
                      THEN Except(Logged(Logged(ps, "geometry"), "resize"), r.raised)
                      ELSE [Logged(Logged(ps, "geometry"), "resize") EXCEPT
                               !.pc = "save", !.img = r.img]
       ELSE ps' = [ps EXCEPT !.pc = "save"]
    /\ UNCHANGED <<fs, enc, writes, faultAt, sc, pd, helperVars>>

\* Lines 385-408: a picture that was not converted is encoded in the format
\* its own name gives (both branches make the same call).
PsSave ==
    /\ ps.pc = "save"
    /\ IF ps.o.convert = None
       THEN LET format_name == IF Suffix(ps.input_path) # ""
                               THEN Lower(SuffixFormat(Suffix(ps.input_path)))
                               ELSE "png"
                ts == TargetBytes(ps.o.target_size)
            IN  IF ts.raised # None
                THEN ps' = Except(ps, ts.raised) /\ UNCHANGED <<fs, writes, sc>>
                ELSE CompressImage(Logged(ps, "encode"), format_name, ts.value,
                                   "finish", "compress_save")
       ELSE ps' = [ps EXCEPT !.pc = "finish"] /\ UNCHANGED <<fs, writes, sc>>
    /\ UNCHANGED <<enc, faultAt, pd, helperVars>>

\* smart_compress returned to compress_image, or raised through it.
PsCompressed ==
    /\ ps.pc \in {"compress_convert", "compress_save"}
    /\ sc.pc \in {"done", "raised"}
    /\ ps' = IF sc.pc = "raised"
             THEN Except(ps, sc.raised)
             ELSE [ps EXCEPT
                      !.pc = IF ps.pc = "compress_convert" THEN "resize" ELSE "finish",
                      !.result.compressed_size = get_image_size(fs, ps.output_path)]
    /\ sc' = IdleFrame
    /\ UNCHANGED <<fs, enc, writes, faultAt, pd, helperVars>>

\* Line 410.
PsFinish ==
    /\ ps.pc = "finish"
    /\ ps' = [ps EXCEPT !.pc = "returned", !.result.success = TRUE]
    /\ UNCHANGED <<fs, enc, writes, faultAt, sc, pd, helperVars>>

(***************************************************************************)
(* process_directory.  The frame pd holds input_dir, output_dir, the       *)
(* options o, image_files as sorted at line 466, the index i of the        *)
(* picture the for loop is at, results, and the position pc: "start",      *)
(* "loop" at the head of the for loop, "in_call" inside                    *)
(* process_single_image, "done" after the return, "raised" if an           *)
(* exception left the loop.                                                *)
(***************************************************************************)
\* Lines 447-464.
PdStart ==
    /\ pd.pc = "start"
    /\ IF pd.image_files = <<>>
       THEN pd' = [pd EXCEPT !.pc = "done"] /\ fs' = fs
       ELSE LET output_dir == IF pd.output_dir = <<>>
                              THEN Join(pd.input_dir, <<"processed", "">>)
                              ELSE pd.output_dir
            IN  /\ pd' = [pd EXCEPT !.pc = "loop", !.output_dir = output_dir]
                /\ fs' = Mkdir(fs, output_dir)
    /\ UNCHANGED <<enc, writes, faultAt, sc, ps, helperVars>>

\* Lines 466-483: the loop calls process_single_image on the next picture.
PdCall ==
    /\ pd.pc = "loop"
    /\ pd.i <= Len(pd.image_files)
    /\ ps' = ProcessSingleImageCall(fs, pd.image_files[pd.i],
                                    Join(pd.input_dir, pd.image_files[pd.i].name),
                                    pd.output_dir, pd.o)
    /\ pd' = [pd EXCEPT !.pc = "in_call"]
    /\ UNCHANGED <<fs, enc, writes, faultAt, sc, helperVars>>

\* Line 484: the call is over; its result is appended, unless it raised.
PdAppend ==
    /\ pd.pc = "in_call"
    /\ ps.pc \in {"returned", "raised"}
    /\ pd' = IF ps.pc = "raised"
             THEN [pd EXCEPT !.pc = "raised"]
             ELSE [pd EXCEPT !.pc = "loop", !.i = pd.i + 1,
                             !.results = Append(pd.results, ps.result)]
    /\ ps' = [pc |-> "idle"]
    /\ UNCHANGED <<fs, enc, writes, faultAt, sc, helperVars>>

\* Lines 486-501: the loop is over and results is returned.
PdDone ==
    /\ pd.pc = "loop"
    /\ pd.i > Len(pd.image_files)
    /\ pd' = [pd EXCEPT !.pc = "done"]
    /\ UNCHANGED <<fs, enc, writes, faultAt, sc, ps, helperVars>>

(***************************************************************************)
(* The program: main calls process_single_image on a file, or              *)
(* process_directory on a directory, with the options of the command line. *)
(***************************************************************************)
MaxImages == 2
MaxFaultAt == 2

InputDir == << <<"in", "">> >>
OutDir == << <<"out", "">> >>

\* The pictures of the input directory, in sorted order; the last is no image.
Pictures ==
    << [name |-> <<"a", ".png">>, mode |-> "RGBA", size |-> <<4, 2>>,
        readable |-> TRUE, bytes |-> 3],
       [name |-> <<"b", ".jpg">>, mode |-> "RGB", size |-> <<2, 1>>,
        readable |-> TRUE, bytes |-> 2],
       [name |-> <<"c", ".png">>, mode |-> "RGB", size |-> <<1, 1>>,
        readable |-> FALSE, bytes |-> 1] >>

\* The pictures chosen by a set of indices, in sorted order.
RECURSIVE Chosen(_, _)
Chosen(indices, from) ==
    IF from > Len(Pictures) THEN <<>>
    ELSE IF from \in indices
         THEN <<Pictures[from]>> \o Chosen(indices, from + 1)
         ELSE Chosen(indices, from + 1)

ImageLists ==
    {Chosen(S, 1) : S \in {T \in SUBSET (1..Len(Pictures)) : Cardinality(T) <= MaxImages}}

ResizeArgs ==
    {[width |-> Unset, height |-> Unset, scale |-> <<>>, preset |-> None],
     [width |-> 2, height |-> Unset, scale |-> <<>>, preset |-> None],
     [width |-> Unset, height |-> Unset, scale |-> <<1, 2>>, preset |-> None],
     [width |-> Unset, height |-> Unset, scale |-> <<>>, preset |-> "hd"],
     [width |-> Unset, height |-> Unset, scale |-> <<>>, preset |-> "poster"]}

Options ==
    {[convert |-> convert, bg_color |-> bg_color,
      width |-> r.width, height |-> r.height, scale |-> r.scale, preset |-> r.preset,
      no_aspect |-> no_aspect, quality |-> quality, optimize |-> optimize,
      target_size |-> target_size, ico_size |-> ICO_SIZE] :
        convert \in {None, "jpg", "png", "ico"},
        bg_color \in {WHITE, <<"#", "f", "f", "f">>},
        r \in ResizeArgs,
        no_aspect \in BOOLEAN,
        quality \in {Unset, 50},
        optimize \in BOOLEAN,
        target_size \in {<<>>, <<"2", "0", "B">>, <<"B">>}}

PipelineCodecs ==
    {[kind |-> "nondec", t1 |-> 50, t2 |-> 90], [kind |-> "noninc", t1 |-> 50, t2 |-> 90]}

Init ==
    /\ call = NoCall /\ ret = NotReturned
    /\ sc = IdleFrame
    /\ writes = 0
    /\ faultAt \in 0..MaxFaultAt
    /\ enc \in PipelineCodecs
    /\ fs = (InputDir :> Dir) @@ (OutDir :> Dir)
    /\ \E o \in Options :
         \/ /\ pd = NoPipeline
            /\ \E i \in 1..Len(Pictures),
                  out \in {<<>>, OutDir, Join(OutDir, <<"x", ".png">>)} :
                 ps = ProcessSingleImageCall(fs, Pictures[i],
                                             Join(InputDir, Pictures[i].name), out, o)
         \/ /\ ps = NoPipeline
            /\ \E files \in ImageLists, out \in {<<>>, OutDir} :
                 pd = [pc |-> "start", input_dir |-> InputDir, output_dir |-> out,
                       o |-> o, image_files |-> files, i |-> 1, results |-> <<>>]

Next ==
    \/ PdStart
    \/ PdCall
    \/ PdAppend
    \/ PdDone
    \/ PsLoad
    \/ PsPaths
    \/ PsConvert
    \/ PsResize
    \/ PsSave
    \/ PsCompressed
    \/ PsFinish
    \/ SmartCompressEntry
    \/ Probe
    \/ SmartCompressReturn

Spec == Init /\ [][Next]_vars

(***************************************************************************)
(* Properties of the pipeline.                                             *)
(***************************************************************************)
\* A call of process_single_image is running or has returned.
InCall == ps.pc # "idle"

\* The size the Geometry Resolver gives for the decoded input picture.
ResolvedSize(f) ==
    calculate_new_size(Decoded(f.input.mode, f.input.size, f.input.name),
                       f.o.width, f.o.height, f.o.scale, f.o.preset,
                       ~f.o.no_aspect).size

\* C3: when a resize parameter is present, the Geometry Resolver and the
\* Resampler run before every encode of the output, so the output encoded has
\* the resolved size, whether or not a conversion (other than to an icon) is
\* requested too.
C3_ResizeBeforeEncode ==
    (InCall /\ ResizeRequested(ps.o) /\ ps.o.convert # "ico") =>
        /\ \A i \in 1..Len(ps.log) :
              ps.log[i] = "encode" => \E j \in 1..(i - 1) : ps.log[j] = "resize"
        /\ ps.pc = "returned" /\ ps.result.success
              => At(fs, ps.output_path).img.size = ResolvedSize(ps)

\* C4: when a stage of process_single_image fails, the call ends with
\* success false and a non-empty error, the original_size gathered before the
\* failure is in the result, and the call has written no file.
C4_FailureLeavesNoOutput ==
    (InCall /\ ps.pc = "returned" /\ ~ps.result.success) =>
        /\ ps.result.error \notin {None, ""}
        /\ ps.result.original_size = IF ps.input.readable THEN ps.input.bytes ELSE 0
        /\ \A path \in DOMAIN fs :
              IsFile(fs[path]) => path \in DOMAIN ps.fs0 /\ ps.fs0[path] = fs[path]

\* C10: process_directory produces one result record per picture, in
\* processing order; a record is either a success with no error or a failure
\* with a non-empty error, a picture that cannot be decoded gives a failure,
\* and no failure ends the loop: no exception leaves process_single_image and
\* the pictures after a failing one are processed.
C10_ErrorIsolation ==
    /\ ps.pc # "raised"
    /\ pd.pc # "raised"
    /\ pd.pc \in {"loop", "in_call", "done"} =>
          /\ Len(pd.results) = pd.i - 1
          /\ pd.pc = "done" => Len(pd.results) = Len(pd.image_files)
          /\ \A k \in 1..Len(pd.results) :
                LET r == pd.results[k]
                IN  /\ r.input = Join(pd.input_dir, pd.image_files[k].name)
                    /\ r.success => r.error = None
                    /\ ~r.success => r.error \notin {None, ""}
                    /\ ~pd.image_files[k].readable => ~r.success

\* C12: in a batch with a format conversion, two pictures with different file
\* names are written to different output locations, so at the end of the batch
\* no picture's output has been overwritten by another's: each successful
\* record's output names a file that holds that picture's encoding.
C12_DistinctBatchOutputs ==
    (pd.pc \in {"loop", "in_call", "done"} /\ pd.o.convert # None) =>
        /\ \A k, l \in 1..Len(pd.results) :
              (/\ k # l
               /\ pd.results[k].success /\ pd.results[l].success
               /\ pd.image_files[k].name # pd.image_files[l].name)
              => pd.results[k].output # pd.results[l].output
        /\ pd.pc = "done" =>
              \A k \in 1..Len(pd.results) :
                 pd.results[k].success =>
                    /\ IsFile(At(fs, pd.results[k].output))
                    /\ At(fs, pd.results[k].output).img.src = pd.image_files[k].name

\* A batch of two pictures is over: the first failed, the second succeeded.
C10_Witness ==
    /\ pd.pc = "done"
    /\ Len(pd.results) = 2
    /\ ~pd.results[1].success
    /\ pd.results[2].success

====
